---- MODULE Spec2Model ----
(***************************************************************************)
(* Model of the coder-factory web client: the WebSocketClient (channel     *)
(* manager and event dispatcher) and the dialog part of window.app (the    *)
(* synchronization coordinator).                                           *)
(*                                                                         *)
(* The specifications share the variables:                                 *)
(*   Spec         the channel: connect / disconnect / socket events /      *)
(*                reconnect timers / heartbeat timers                      *)
(*   SpecSend     Spec with send, subscribe and the heartbeat ticks        *)
(*   SpecDispatch the listener registry and message dispatch               *)
(*   SpecRegistry on and off alone, every off() call recorded              *)
(*   SpecApp      the dialog coordinator: notifications, pulls, answers    *)
(*   SpecRefresh  SpecApp, recording what each refresh changed             *)
(*   SpecPulls    the pulls alone, recording the values each one returned  *)
(*   SpecServer   notifications and pulls against a server whose dialog    *)
(*                only moves forward                                       *)
(*   SpecProgress one refresh after the other, over all question counters  *)
(*   SpecAnswer   one call after the other: start, then answers            *)
(*   SpecThrowing the dispatcher with callbacks that may throw             *)
(*   SpecUnsubscribing  the dispatcher with callbacks that may call off()  *)
(*   SpecSubmit   the requirement form: submitRequirement and its outcomes *)
(*   SpecSession  submissions that start new sessions while pulls run      *)
(* Each one leaves the variables of the other parts untouched.             *)
(***************************************************************************)
EXTENDS Integers, Sequences, FiniteSets, Bags

\* ------------------------------------------------------------------ bounds
\* sockets and pending reconnect timers that may exist at the same time
MaxConns == 2
\* heartbeat interval timers that may be started (they are never cleared)
MaxHeartbeats == 2

\* callbacks that may be registered for one event key
MaxListeners == 3

\* async calls of the app (refreshes, answers) that may be in flight at the same time
MaxTasks == 2

\* the largest question counter a status response may report
MaxTotal == 40

\* ------------------------------------------------------- program constants
maxReconnectAttempts == 5

Null == "null"
NoPull == [done |-> FALSE, state |-> "idle", progress |-> 0, history |-> <<>>]
NoValues == [state |-> "idle", progress |-> 0]
SessionIds == {"s1"}
Bindings == SessionIds \cup {Null}

Slots == 1..MaxConns
NoSocket == [state |-> "none", sid |-> Null]

VARIABLES
    \* ---- WebSocketClient
    sockets,            \* every WebSocket the client constructed and that is not yet collected
    ws,                 \* this.ws: a slot of sockets, or 0 for null
    sessionId,          \* this.sessionId
    connected,          \* this.connected
    reconnectAttempts,  \* this.reconnectAttempts
    reconnectTimers,    \* pending setTimeout(() => this.connect(this.sessionId)) callbacks
    heartbeats,         \* active setInterval timers started by _startHeartbeat
    onStateChange,      \* this.onStateChange is set (to the app's observer)
    wsConnected,        \* app.wsConnected, written by the observer
    \* ---- history variables of the channel
    userClosed,         \* disconnect() was called and connect() was not called since
    ceilingLost,        \* a close event was handled at the ceiling and connect() was not called since
    timerFor,           \* for each pending reconnect timer, the binding of the socket whose
                        \* loss scheduled it: a bag of bindings
    lastSend,           \* the send the step just taken made: its argument and what it put on
                        \* the wire, as <<socket, message>> (NoSendCall for every other step)
    \* ---- event dispatcher
    listeners,          \* this.listeners: Map from event key to the array of callbacks
    lastData,           \* event.data, when the step just taken handled a message event (else NoData)
    invoked,            \* the callback invocations made by the step just taken: <<callback, argument>>
    lastOff,            \* the off() call the step just taken made: event, callback and the
                        \* index it found (recorded when tracing = "offs", else NoOff)
    lastRun,            \* how the dispatch the step just made ended, and the dispatch
                        \* made by the step before it (history variable)
    \* ---- window.app, dialog part
    currentSessionId,   \* app.currentSessionId
    dialogState,        \* app.dialogState
    dialogProgress,     \* app.dialogProgress
    dialogHistory,      \* app.dialogHistory
    currentQuestion,    \* app.currentQuestion
    textInput,          \* app.textInput
    tasks,              \* the async calls suspended at an await: a bag of task records
    \* ---- history variables of the app
    lastPull,           \* what the refresh that completed last returned: state, progress, history
    outcome,            \* what the step just taken was (history variable)
    tracing,            \* which history is recorded, fixed by the initial state: "none",
                        \* "values" (what each refresh returned), "changes" (whether it
                        \* changed a dialog field), "offs" (the off() calls) or "server"
                        \* (the server's dialog state, which the responses then follow)
    \* ---- the server
    serverState,        \* the state of the session's dialog on the server
    \* ---- the requirement form of the app
    requirementText,    \* app.requirementText, a sequence of characters
    submitting,         \* app.submitting
    parsedResult,       \* app.parsedResult
    notification        \* app.notification: whether it is shown, and its type

chanVars == <<sockets, ws, sessionId, connected, reconnectAttempts, reconnectTimers,
              heartbeats, onStateChange, wsConnected, userClosed, ceilingLost, timerFor,
              lastSend>>

clientFields == <<sockets, ws, sessionId, connected, reconnectAttempts, reconnectTimers,
                  heartbeats, onStateChange, wsConnected>>

dispVars == <<listeners, lastData, invoked, lastOff, lastRun>>

appVars == <<currentSessionId, dialogState, dialogProgress, dialogHistory, currentQuestion,
             textInput, tasks, lastPull, outcome, tracing, serverState>>

dialogFields == <<dialogState, dialogProgress, dialogHistory, currentQuestion>>

formVars == <<requirementText, submitting, parsedResult, notification>>

vars == <<chanVars, dispVars, appVars, formVars>>

\* ---------------------------------------------------------------- messages
\* app.notification before anything was shown (app.js 35)
NoNotification == [show |-> FALSE, type |-> "info"]

NoMessage == [type |-> "none", body |-> ""]
NoSendCall == [arg |-> NoMessage, wire |-> <<>>]
Ping == [type |-> "ping", body |-> ""]
Outbound == {[type |-> "chat", body |-> "hello"]}
EventLists == {"dialog_update"}

\* ----------------------------------------------------------------- sockets
Live(socks) == {s \in Slots : socks[s].state \in {"connecting", "open", "closing"}}

IsOpen(socks, w) == w # 0 /\ socks[w].state = "open"

\* A closed socket that this.ws no longer references is unreachable: its slot is free.
Collect(socks, w) ==
    [s \in Slots |-> IF socks[s].state = "closed" /\ s # w THEN NoSocket ELSE socks[s]]

FreeSlot(socks) ==
    CHOOSE s \in Slots : /\ socks[s].state \in {"none", "closed"}
                         /\ \A r \in Slots : r < s => socks[r].state \notin {"none", "closed"}

\* mutant: the observer is never called
NotifiedNever(c) == wsConnected

\* _notifyStateChange(): the observer, when set, copies this.connected
Notified(c) == IF onStateChange THEN c ELSE wsConnected

\* connect(id) entered while the current socket is not open
ConnectNew(id, throws) ==
    /\ sessionId' = id
    /\ IF throws
         THEN UNCHANGED <<sockets, ws>>
         ELSE LET s == FreeSlot(sockets) IN
              /\ ws' = s
              /\ sockets' = Collect([sockets EXCEPT ![s] = [state |-> "connecting", sid |-> id]], s)

\* connect(id): the body of WebSocketClient.connect
ConnectBody(id, throws) ==
    IF IsOpen(sockets, ws)
      THEN UNCHANGED <<sockets, ws, sessionId>>
      ELSE ConnectNew(id, throws)

\* ----------------------------------------------------------------- actions
\* app.init installs the observer
InstallObserver ==
    /\ ~onStateChange
    /\ onStateChange' = TRUE
    /\ lastSend' = NoSendCall
    /\ UNCHANGED <<sockets, ws, sessionId, connected, reconnectAttempts, reconnectTimers,
                   heartbeats, wsConnected, userClosed, ceilingLost, timerFor>>

\* an explicit call of connect(id)
Connect(id, throws) ==
    /\ IsOpen(sockets, ws) \/ Cardinality(Live(sockets)) + reconnectTimers < MaxConns
    /\ ConnectBody(id, throws)
    /\ userClosed' = FALSE
    /\ ceilingLost' = FALSE
    /\ lastSend' = NoSendCall
    /\ UNCHANGED <<connected, reconnectAttempts, reconnectTimers, heartbeats,
                   onStateChange, wsConnected, timerFor>>

\* the reconnect timer scheduled by the loss of a socket bound to b fires:
\* () => this.connect(this.sessionId)
ReconnectTimerOf(b, throws) ==
    /\ reconnectTimers > 0
    /\ b \in BagToSet(timerFor)
    /\ reconnectTimers' = reconnectTimers - 1
    /\ timerFor' = timerFor (-) SetToBag({b})
    /\ lastSend' = NoSendCall
    /\ ConnectBody(sessionId, throws)
    /\ UNCHANGED <<connected, reconnectAttempts, heartbeats, onStateChange, wsConnected,
                   userClosed, ceilingLost>>

ReconnectTimer(throws) == \E b \in Bindings : ReconnectTimerOf(b, throws)

\* the open event of socket s: ws.onopen
OnOpen(s) ==
    /\ sockets[s].state = "connecting"
    /\ heartbeats < MaxHeartbeats
    /\ sockets' = [sockets EXCEPT ![s].state = "open"]
    /\ connected' = TRUE
    /\ reconnectAttempts' = 0
    /\ wsConnected' = Notified(TRUE)
    /\ heartbeats' = heartbeats + 1
    /\ lastSend' = NoSendCall
    /\ UNCHANGED <<ws, sessionId, reconnectTimers, onStateChange, userClosed, ceilingLost,
                   timerFor>>

\* the close event of socket s: ws.onclose
OnCloseBody(s) ==
    /\ sockets' = Collect([sockets EXCEPT ![s].state = "closed"], ws)
    /\ connected' = FALSE
    /\ wsConnected' = Notified(FALSE)
    /\ lastSend' = NoSendCall
    /\ IF reconnectAttempts < maxReconnectAttempts
         THEN /\ reconnectAttempts' = reconnectAttempts + 1
              /\ reconnectTimers' = reconnectTimers + 1
              /\ timerFor' = timerFor (+) SetToBag({sockets[s].sid})
              /\ UNCHANGED ceilingLost
         ELSE /\ UNCHANGED <<reconnectAttempts, reconnectTimers, timerFor>>
              /\ ceilingLost' = TRUE
    /\ UNCHANGED <<ws, sessionId, heartbeats, onStateChange, userClosed>>

OnClose(s) ==
    /\ s \in Live(sockets)
    /\ OnCloseBody(s)

\* disconnect()
DisconnectBody ==
    /\ IF ws # 0
         THEN sockets' = Collect([sockets EXCEPT ![ws].state =
                                    IF @ \in {"connecting", "open"} THEN "closing" ELSE @], 0)
         ELSE UNCHANGED sockets
    /\ ws' = 0
    /\ connected' = FALSE
    /\ wsConnected' = Notified(FALSE)

Disconnect ==
    /\ DisconnectBody
    /\ userClosed' = TRUE
    /\ lastSend' = NoSendCall
    /\ UNCHANGED <<sessionId, reconnectAttempts, reconnectTimers, heartbeats,
                   onStateChange, ceilingLost, timerFor>>

\* mutant: send only checks that there is a socket, not that it is open
SendBodyAnySocket(message) ==
    IF ws # 0
      THEN [arg |-> message, wire |-> <<<<ws, message>>>>]
      ELSE [arg |-> message, wire |-> <<>>]

\* send(message): what it is called with and what it hands to ws.send
SendBody(message) ==
    IF IsOpen(sockets, ws)
      THEN [arg |-> message, wire |-> <<<<ws, message>>>>]
      ELSE [arg |-> message, wire |-> <<>>]

Send(message) ==
    /\ lastSend' = SendBody(message)
    /\ UNCHANGED <<clientFields, userClosed, ceilingLost, timerFor>>

\* subscribe(events)
Subscribe(events) == Send([type |-> "subscribe", body |-> events])

\* a heartbeat interval timer fires
Heartbeat ==
    /\ heartbeats > 0
    /\ lastSend' = IF IsOpen(sockets, ws) THEN SendBody(Ping) ELSE [arg |-> Ping, wire |-> <<>>]
    /\ UNCHANGED <<clientFields, userClosed, ceilingLost, timerFor>>

\* -------------------------------------------------------- event dispatcher
Wildcard == "*"
MsgTypes == {"dialog_update", "task_update", Wildcard}
EventKeys == {"dialog_update", Wildcard}
Callbacks == {"A", "B", "C"}

\* event.data: a JSON text of a message object, or a text that is no JSON
RawData == {<<"json", t, "b">> : t \in MsgTypes} \cup {<<"garbage">>}
NoData == <<>>

\* mutant: a text that is no JSON is read as a message for the wildcard listeners
JSONparseLenient(raw) ==
    [ok |-> TRUE,
     value |-> IF raw[1] = "json" THEN [type |-> raw[2], body |-> raw[3]]
                                  ELSE [type |-> Wildcard, body |-> "b"]]

\* JSON.parse(event.data): the message object, or a SyntaxError
JSONparse(raw) ==
    IF raw[1] = "json"
      THEN [ok |-> TRUE, value |-> [type |-> raw[2], body |-> raw[3]]]
      ELSE [ok |-> FALSE, value |-> Null]

NoOff == [event |-> Null, callback |-> Null, index |-> 0]

\* no dispatch was made by the step, nor by the step before it
NoRunBefore == [thrown |-> FALSE, data |-> NoData, calls |-> 0]
NoRun == [thrown |-> FALSE, before |-> NoRunBefore]

\* mutant: the last occurrence is looked up (lastIndexOf)
IndexOfLast(callbacks, callback) ==
    IF \E i \in 1..Len(callbacks) : callbacks[i] = callback
      THEN CHOOSE i \in 1..Len(callbacks) :
             /\ callbacks[i] = callback
             /\ \A j \in (i + 1)..Len(callbacks) : callbacks[j] # callback
      ELSE 0

\* callbacks.indexOf(callback): 0 stands for -1, indices start at 1
IndexOf(callbacks, callback) ==
    IF \E i \in 1..Len(callbacks) : callbacks[i] = callback
      THEN CHOOSE i \in 1..Len(callbacks) :
             /\ callbacks[i] = callback
             /\ \A j \in 1..(i - 1) : callbacks[j] # callback
      ELSE 0

\* callbacks.splice(index, 1)
Splice(callbacks, index) ==
    [i \in 1..(Len(callbacks) - 1) |-> IF i < index THEN callbacks[i] ELSE callbacks[i + 1]]

\* on(event, callback)
OnBody(reg, event, callback) ==
    IF event \in DOMAIN reg
      THEN [reg EXCEPT ![event] = Append(@, callback)]
      ELSE [k \in DOMAIN reg \cup {event} |-> IF k = event THEN <<callback>> ELSE reg[k]]

\* off(event, callback)
OffBody(reg, event, callback) ==
    IF event \in DOMAIN reg /\ IndexOf(reg[event], callback) > 0
      THEN [reg EXCEPT ![event] = Splice(@, IndexOf(reg[event], callback))]
      ELSE reg

\* callbacks.forEach(callback => callback(message)), from index k on
RECURSIVE ForEach(_, _, _)
ForEach(callbacks, k, message) ==
    IF k > Len(callbacks)
      THEN <<>>
      ELSE <<<<callbacks[k], message>>>> \o ForEach(callbacks, k + 1, message)

\* mutant: the wildcard listeners are notified first
HandleMessageWildcardFirst(reg, message) ==
    LET typed == IF message.type \in DOMAIN reg THEN ForEach(reg[message.type], 1, message) ELSE <<>>
        all   == IF Wildcard \in DOMAIN reg THEN ForEach(reg[Wildcard], 1, message) ELSE <<>>
    IN  all \o typed

\* _handleMessage(message): the invocations it makes, in order
HandleMessage(reg, message) ==
    LET typed == IF message.type \in DOMAIN reg THEN ForEach(reg[message.type], 1, message) ELSE <<>>
        all   == IF Wildcard \in DOMAIN reg THEN ForEach(reg[Wildcard], 1, message) ELSE <<>>
    IN  typed \o all

On(event, callback) ==
    /\ event \in DOMAIN listeners => Len(listeners[event]) < MaxListeners
    /\ listeners' = OnBody(listeners, event, callback)
    /\ lastData' = NoData
    /\ invoked' = <<>>
    /\ lastRun' = NoRun
    /\ lastOff' = NoOff
    /\ UNCHANGED <<chanVars, appVars, formVars>>

Off(event, callback) ==
    /\ listeners' = OffBody(listeners, event, callback)
    /\ lastData' = NoData
    /\ invoked' = <<>>
    /\ lastRun' = NoRun
    /\ lastOff' = IF tracing = "offs"
                    THEN [event |-> event, callback |-> callback,
                          index |-> IF event \in DOMAIN listeners
                                      THEN IndexOf(listeners[event], callback) ELSE 0]
                    ELSE NoOff
    /\ UNCHANGED <<chanVars, appVars, formVars>>

\* the message event of socket s: ws.onmessage
OnMessage(s, raw) ==
    /\ sockets[s].state = "open"
    /\ lastData' = raw
    /\ invoked' = IF JSONparse(raw).ok THEN HandleMessage(listeners, JSONparse(raw).value) ELSE <<>>
    /\ lastOff' = NoOff
    /\ lastRun' = NoRun
    /\ UNCHANGED listeners
    /\ UNCHANGED <<chanVars, appVars, formVars>>

\* what a subscriber callback does when it is invoked: it returns, it throws, or it
\* calls off(event, callback) and returns
Returns == [kind |-> "return", event |-> Null, callback |-> Null]
Throws == [kind |-> "throw", event |-> Null, callback |-> Null]
Unsubscribes == {[kind |-> "off", event |-> e, callback |-> c] : e \in EventKeys, c \in Callbacks}

\* mutant: an exception of a callback is caught per callback
InvokeCatching(st, callback, message, does) ==
    [reg |-> IF does[callback].kind = "off"
               THEN OffBody(st.reg, does[callback].event, does[callback].callback)
               ELSE st.reg,
     invoked |-> Append(st.invoked, <<callback, message>>),
     thrown |-> FALSE]

\* callback(message): the call is recorded, the callback may change the registry,
\* and it returns or throws
Invoke(st, callback, message, does) ==
    [reg |-> IF does[callback].kind = "off"
               THEN OffBody(st.reg, does[callback].event, does[callback].callback)
               ELSE st.reg,
     invoked |-> Append(st.invoked, <<callback, message>>),
     thrown |-> does[callback].kind = "throw"]

\* Array.prototype.forEach on the array registered for event, from index k on: the
\* length len is read once, every index is looked up in the array as it is when its
\* turn comes, and an exception ends the iteration
RECURSIVE ForEachLive(_, _, _, _, _, _)
ForEachLive(st, event, k, len, message, does) ==
    IF st.thrown \/ k > len
      THEN st
      ELSE IF k > Len(st.reg[event])
             THEN ForEachLive(st, event, k + 1, len, message, does)
             ELSE ForEachLive(Invoke(st, st.reg[event][k], message, does),
                              event, k + 1, len, message, does)

\* _handleMessage(message) with callbacks behaving as does says: the invocations made,
\* the registry it leaves, and whether an exception left it
HandleMessageWith(reg, message, does) ==
    LET start == [reg |-> reg, invoked |-> <<>>, thrown |-> FALSE]
        typed == IF message.type \in DOMAIN reg
                   THEN ForEachLive(start, message.type, 1, Len(reg[message.type]),
                                    message, does)
                   ELSE start
    IN  IF ~typed.thrown /\ Wildcard \in DOMAIN typed.reg
          THEN ForEachLive(typed, Wildcard, 1, Len(typed.reg[Wildcard]), message, does)
          ELSE typed

\* the message event of socket s, the callbacks behaving as does says: ws.onmessage,
\* whose catch swallows the exception of JSON.parse or of a callback
OnMessageWith(s, raw, does) ==
    /\ sockets[s].state = "open"
    /\ lastData' = raw
    /\ LET run == IF JSONparse(raw).ok
                    THEN HandleMessageWith(listeners, JSONparse(raw).value, does)
                    ELSE [reg |-> listeners, invoked |-> <<>>, thrown |-> FALSE]
       IN  /\ invoked' = run.invoked
           /\ listeners' = run.reg
           /\ lastRun' = [thrown |-> run.thrown,
                          before |-> IF lastRun.thrown
                                       THEN [thrown |-> TRUE, data |-> lastData,
                                             calls |-> Len(invoked)]
                                       ELSE NoRunBefore]
    /\ lastOff' = NoOff
    /\ UNCHANGED <<chanVars, appVars, formVars>>

\* ------------------------------------------------------ dialog coordinator
ReportedStates == {"confirming", "refining", "approved", "cancelled"}
Questions == {"q1", "q2"}
Answers == {"yes"}

\* what the server may answer (the request/response interface is an input)
NoSummary == [present |-> FALSE, total_questions |-> 0, answered_questions |-> 0]
Summaries ==
    {NoSummary,
     [present |-> TRUE, total_questions |-> 4, answered_questions |-> 1],
     [present |-> TRUE, total_questions |-> 1, answered_questions |-> 1]}
StatusData == [state : ReportedStates, dialog_summary : Summaries]

\* status responses with every pair of counters up to MaxTotal
Counters == 0..MaxTotal
ProgressData ==
    [state : {"confirming"},
     dialog_summary : {NoSummary} \cup [present : {TRUE}, total_questions : Counters,
                                        answered_questions : Counters]]
HistoryData == {[present |-> FALSE, history |-> <<>>], [present |-> TRUE, history |-> <<"t1">>]}
QuestionData ==
    {[has_question |-> FALSE, question |-> Null]} \cup [has_question : {TRUE}, question : Questions]
AnswerData == [success : BOOLEAN, state : {"confirming", "refining", "approved"}]
Notifications == [type : {"dialog_update", "task_update"}, state : ReportedStates]

Terminal(state) == state \in {"approved", "cancelled"}

\* the state a request issued now is answered with, when the server is followed
Seen == IF tracing = "server" THEN serverState ELSE ""

\* the server's dialog moves on; approved and cancelled are final
ServerAdvance(state) ==
    /\ tracing = "server"
    /\ ~Terminal(serverState) /\ state # serverState
    /\ serverState' = state
    /\ UNCHANGED <<currentSessionId, dialogState, dialogProgress, dialogHistory, currentQuestion,
                   textInput, tasks, lastPull, outcome, tracing>>
    /\ UNCHANGED <<chanVars, dispVars, formVars>>

\* ---- JavaScript numbers: IEEE 754 doubles. A positive double is [m, f]: m the 53
\* bits of its significand, most significant (a 1) first, f the number of those
\* bits, counted from the right, that lie after the binary point; value m / 2^f.
MantissaBits == 53
Zero == [m |-> <<>>, f |-> 0]

\* the binary digits of v < 2^width, most significant first, width digits
Bits(v, width) == [j \in 1..width |-> (v \div 2^(width - j)) % 2]

\* bits without its leading zeros
Strip(bits) ==
    IF \E i \in 1..Len(bits) : bits[i] = 1
      THEN SubSeq(bits, CHOOSE i \in 1..Len(bits) :
                              bits[i] = 1 /\ \A j \in 1..(i - 1) : bits[j] = 0,
                  Len(bits))
      ELSE <<>>

\* the binary digits of the natural number n < 2^31, without leading zeros
IntBits(n) == Strip(Bits(n, 31))

\* the natural number with the binary digits bits (fewer than 31)
RECURSIVE ToInt(_)
ToInt(bits) ==
    IF Len(bits) = 0 THEN 0
    ELSE IF Len(bits) = 1 THEN bits[1]
    ELSE LET h == Len(bits) \div 2
         IN  ToInt(SubSeq(bits, 1, h)) * 2^(Len(bits) - h) + ToInt(SubSeq(bits, h + 1, Len(bits)))

\* binary digits are produced ChunkBits at a time
ChunkBits == 8

\* the first n * ChunkBits binary digits of the fraction rem / t (rem < t < 2^22)
RECURSIVE FracBits(_, _, _)
FracBits(rem, t, n) ==
    IF n = 0 THEN <<>>
    ELSE LET x == rem * 2^ChunkBits
         IN  Bits(x \div t, ChunkBits) \o FracBits(x % t, t, n - 1)

\* what is left of rem / t after those digits
RECURSIVE FracRem(_, _, _)
FracRem(rem, t, n) ==
    IF n = 0 THEN rem ELSE FracRem((rem * 2^ChunkBits) % t, t, n - 1)

\* bits + 1, one digit longer when bits are all 1
Increment(bits) ==
    IF \E i \in 1..Len(bits) : bits[i] = 0
      THEN LET p == CHOOSE i \in 1..Len(bits) :
                      bits[i] = 0 /\ \A j \in (i + 1)..Len(bits) : bits[j] = 1
           IN  [i \in 1..Len(bits) |-> IF i < p THEN bits[i] ELSE IF i = p THEN 1 ELSE 0]
      ELSE <<1>> \o [i \in 1..Len(bits) |-> 0]

\* bits * k + carry, for k < 2^7, ChunkBits digits at a time from the right
RECURSIVE MulSmall(_, _, _)
MulSmall(bits, k, carry) ==
    IF bits = <<>> THEN IntBits(carry)
    ELSE LET n    == Len(bits)
             w    == IF n < ChunkBits THEN n ELSE ChunkBits
             v    == ToInt(SubSeq(bits, n - w + 1, n)) * k + carry
         IN  MulSmall(SubSeq(bits, 1, n - w), k, v \div 2^w) \o Bits(v % 2^w, w)

\* the double nearest to bits / 2^f (plus something below the last bit, when sticky),
\* ties to even
Nearest(bits, f, sticky) ==
    LET n == Len(bits) IN
    IF n <= MantissaBits
      THEN [m |-> bits \o [i \in 1..(MantissaBits - n) |-> 0], f |-> f + (MantissaBits - n)]
      ELSE LET kept  == SubSeq(bits, 1, MantissaBits)
               guard == bits[MantissaBits + 1]
               rest  == sticky \/ \E i \in (MantissaBits + 2)..n : bits[i] = 1
               up    == guard = 1 /\ (rest \/ kept[MantissaBits] = 1)
               r     == IF up THEN Increment(kept) ELSE kept
               d     == n - MantissaBits
           IN  IF Len(r) > MantissaBits
                 THEN [m |-> SubSeq(r, 1, MantissaBits), f |-> f - d - 1]
                 ELSE [m |-> r, f |-> f - d]

\* a / t in doubles, for naturals a and 0 < t < 2^22: the quotient is developed to
\* more than MantissaBits + 1 significant digits and then rounded
Divide(a, t) ==
    IF a = 0 THEN Zero
    ELSE LET chunks == (MantissaBits + 31) \div ChunkBits + 1
             nfrac  == chunks * ChunkBits
         IN  Nearest(Strip(IntBits(a \div t) \o FracBits(a % t, t, chunks)), nfrac,
                     FracRem(a % t, t, chunks) # 0)

\* x * 100 in doubles
Times100(x) == IF x = Zero THEN Zero ELSE Nearest(Strip(MulSmall(x.m, 100, 0)), x.f, FALSE)

\* Math.round(x) for 0 <= x < 2^31: the nearest integer, halves up
MathRound(x) ==
    IF x = Zero THEN 0
    ELSE LET n == MantissaBits - x.f
         IN  (IF n <= 0 THEN 0 ELSE ToInt(SubSeq(x.m, 1, n)))
             + (IF n >= 0 /\ n < MantissaBits THEN x.m[n + 1] ELSE 0)

\* total > 0 ? Math.round((answered / total) * 100) : 0
ProgressOf(answered, total) ==
    IF total > 0 THEN MathRound(Times100(Divide(answered, total))) ELSE 0

\* the same, computed once for every pair of counters
Computed == [total \in Counters |-> [answered \in Counters |-> ProgressOf(answered, total)]]

\* app.loadDialogStatus, "Calculate progress"
Progress(data) ==
    LET summary  == data.dialog_summary
        total    == IF summary.present THEN summary.total_questions ELSE 0
        answered == IF summary.present THEN summary.answered_questions ELSE 0
    IN  Computed[total][answered]

\* history.history || []
HistoryOf(data) == IF data.present THEN data.history ELSE <<>>

\* An async call suspended at an await. fn: the function the app called; pc: the
\* request it awaits; sid: the session the request was made for; final: the answer's
\* result.state was 'refining' or 'approved'; changed: the refresh it runs has changed
\* a dialog field; got: the state and progress its status request returned; seen: the
\* server's state when the request it awaits was issued.
Task(fn, pc, final) ==
    [fn |-> fn, pc |-> pc, sid |-> currentSessionId, final |-> final,
     changed |-> FALSE, got |-> NoValues, seen |-> Seen]

InFlight == BagCardinality(tasks)
Put(b, t) == b (+) SetToBag({t})
Take(b, t) == b (-) SetToBag({t})

\* loadCurrentQuestion() entered by the call that task t stands for (or by a new call
\* when fn is given): the bag with the suspended call added, if it gets to its await
LoadCurrentQuestionBody(b, fn) ==
    IF currentSessionId = Null THEN b ELSE Put(b, Task(fn, "question", FALSE))

\* loadDialogStatus() entered
LoadDialogStatusBody(b, fn, final) ==
    IF currentSessionId = Null THEN b ELSE Put(b, Task(fn, "status", final))

\* the caller of loadDialogStatus resumes after it returned, task t taken out of b
\* already: [tasks, clear], clear saying that currentQuestion is set to null
AfterLoadDialogStatus(b, t) ==
    CASE t.fn = "loadDialogStatus" -> [tasks |-> b, clear |-> FALSE]
      [] t.fn = "startDialog"      -> [tasks |-> LoadCurrentQuestionBody(b, t.fn), clear |-> FALSE]
      [] t.fn = "answerQuestion"   ->
           IF t.final
             THEN [tasks |-> b, clear |-> TRUE]
             ELSE [tasks |-> LoadCurrentQuestionBody(b, t.fn), clear |-> FALSE]

Failed(t) ==
    IF tracing # "changes" THEN "none"
    ELSE IF t.changed THEN "refreshFailedChanged" ELSE "refreshFailed"

\* app.handleWsMessage(message), which app.init registers for '*'
HandleWsMessage(message) ==
    /\ \E s \in Slots : sockets[s].state = "open"
    /\ Wildcard \in DOMAIN listeners /\ IndexOf(listeners[Wildcard], "handleWsMessage") > 0
    /\ tracing = "server" => message.state = serverState
    /\ IF message.type = "dialog_update"
         THEN /\ currentSessionId # Null => InFlight < MaxTasks
              /\ dialogState' = message.state
              /\ tasks' = LoadCurrentQuestionBody(tasks, "loadCurrentQuestion")
         ELSE UNCHANGED <<dialogState, tasks>>
    /\ outcome' = "none"
    /\ UNCHANGED <<currentSessionId, dialogProgress, dialogHistory, currentQuestion,
                   textInput, lastPull, tracing, serverState>>
    /\ UNCHANGED <<chanVars, dispVars, formVars>>

\* the page watcher, when app.currentPage has changed to 'dialog'
PageWatcherDialog ==
    /\ currentSessionId # Null => InFlight + 2 <= MaxTasks
    /\ tasks' = LET b == LoadDialogStatusBody(tasks, "loadDialogStatus", FALSE)
                IN  LoadCurrentQuestionBody(b, "loadCurrentQuestion")
    /\ outcome' = "none"
    /\ UNCHANGED <<currentSessionId, dialogState, dialogProgress, dialogHistory,
                   currentQuestion, textInput, lastPull, tracing, serverState>>
    /\ UNCHANGED <<chanVars, dispVars, formVars>>

\* app.startDialog()
StartDialog ==
    /\ currentSessionId # Null => InFlight < MaxTasks
    /\ tasks' = LoadDialogStatusBody(tasks, "startDialog", FALSE)
    /\ outcome' = "none"
    /\ UNCHANGED <<currentSessionId, dialogState, dialogProgress, dialogHistory,
                   currentQuestion, textInput, lastPull, tracing, serverState>>
    /\ UNCHANGED <<chanVars, dispVars, formVars>>

\* mutant: the guard forgets the pending question
AnswerAllowedSessionOnly == currentSessionId # Null

\* the guard of app.answerQuestion
AnswerAllowed == currentSessionId # Null /\ currentQuestion # Null

\* app.answerQuestion(answer)
AnswerQuestion(answer) ==
    /\ AnswerAllowed => InFlight < MaxTasks
    /\ IF AnswerAllowed
         THEN /\ tasks' = Put(tasks, Task("answerQuestion", "answer", FALSE))
              /\ outcome' = "none"
         ELSE /\ UNCHANGED tasks
              /\ outcome' = "answerRejected"
    /\ UNCHANGED <<currentSessionId, dialogState, dialogProgress, dialogHistory,
                   currentQuestion, textInput, lastPull, tracing, serverState>>
    /\ UNCHANGED <<chanVars, dispVars, formVars>>

\* the user types into the answer field (x-model of textInput)
TypeText ==
    /\ textInput' = "typed"
    /\ outcome' = "none"
    /\ UNCHANGED <<currentSessionId, dialogState, dialogProgress, dialogHistory,
                   currentQuestion, tasks, lastPull, tracing, serverState>>
    /\ UNCHANGED <<chanVars, dispVars, formVars>>

\* api.answerQuestion resolves
AnswerResponse(t, result) ==
    /\ t \in BagToSet(tasks) /\ t.pc = "answer"
    /\ IF result.success
         THEN /\ textInput' = ""
              /\ LET final == result.state \in {"refining", "approved"}
                     b == Take(tasks, t)
                 IN  IF currentSessionId = Null
                       THEN LET r == AfterLoadDialogStatus(b, [t EXCEPT !.final = final])
                            IN  /\ tasks' = r.tasks
                                /\ currentQuestion' = IF r.clear THEN Null ELSE currentQuestion
                       ELSE /\ tasks' = LoadDialogStatusBody(b, t.fn, final)
                            /\ UNCHANGED currentQuestion
         ELSE /\ tasks' = Take(tasks, t)
              /\ UNCHANGED <<textInput, currentQuestion>>
    /\ outcome' = "none"
    /\ UNCHANGED <<currentSessionId, dialogState, dialogProgress, dialogHistory, lastPull, tracing, serverState>>
    /\ UNCHANGED <<chanVars, dispVars, formVars>>

\* api.getDialogStatus resolves in loadDialogStatus
StatusResponse(t, data) ==
    /\ t \in BagToSet(tasks) /\ t.pc = "status"
    /\ tracing = "server" => data.state = t.seen
    /\ dialogState' = data.state
    /\ dialogProgress' = Progress(data)
    /\ tasks' = Put(Take(tasks, t),
                    [t EXCEPT !.pc = "history", !.sid = currentSessionId, !.seen = Seen,
                              !.got = IF tracing = "values"
                                        THEN [state |-> data.state, progress |-> Progress(data)]
                                        ELSE NoValues,
                              !.changed = /\ tracing = "changes"
                                          /\ \/ data.state # dialogState
                                             \/ Progress(data) # dialogProgress])
    /\ outcome' = "none"
    /\ UNCHANGED <<currentSessionId, dialogHistory, currentQuestion, textInput, lastPull, tracing, serverState>>
    /\ UNCHANGED <<chanVars, dispVars, formVars>>

\* api.getDialogHistory resolves in loadDialogStatus
HistoryResponse(t, data) ==
    /\ t \in BagToSet(tasks) /\ t.pc = "history"
    /\ dialogHistory' = HistoryOf(data)
    /\ lastPull' = IF tracing = "values"
                     THEN [done |-> TRUE, state |-> t.got.state, progress |-> t.got.progress,
                           history |-> HistoryOf(data)]
                     ELSE lastPull
    /\ LET r == AfterLoadDialogStatus(Take(tasks, t), t)
       IN  /\ tasks' = r.tasks
           /\ currentQuestion' = IF r.clear THEN Null ELSE currentQuestion
    /\ outcome' = "none"
    /\ UNCHANGED <<currentSessionId, dialogState, dialogProgress, textInput, tracing, serverState>>
    /\ UNCHANGED <<chanVars, dispVars, formVars>>

\* api.getCurrentQuestion resolves in loadCurrentQuestion
QuestionResponse(t, data) ==
    /\ t \in BagToSet(tasks) /\ t.pc = "question"
    /\ IF data.has_question
         THEN /\ currentQuestion' = data.question
              /\ tasks' = Take(tasks, t)
         ELSE /\ currentQuestion' = Null
              /\ tasks' = Put(Take(tasks, t),
                              [t EXCEPT !.pc = "check", !.sid = currentSessionId, !.seen = Seen,
                                        !.changed = (tracing = "changes" /\ currentQuestion # Null)])
    /\ outcome' = "none"
    /\ UNCHANGED <<currentSessionId, dialogState, dialogProgress, dialogHistory,
                   textInput, lastPull, tracing, serverState>>
    /\ UNCHANGED <<chanVars, dispVars, formVars>>

\* api.getDialogStatus resolves in loadCurrentQuestion ("Check if approved")
CheckResponse(t, status) ==
    /\ t \in BagToSet(tasks) /\ t.pc = "check"
    /\ tracing = "server" => status.state = t.seen
    /\ IF status.state = "approved"
         THEN /\ dialogState' = "approved"
              /\ dialogProgress' = 100
              /\ lastPull' = IF tracing = "values" /\ lastPull.done
                               THEN [lastPull EXCEPT !.state = "approved", !.progress = 100]
                               ELSE lastPull
         ELSE UNCHANGED <<dialogState, dialogProgress, lastPull>>
    /\ tasks' = Take(tasks, t)
    /\ outcome' = "none"
    /\ UNCHANGED <<currentSessionId, dialogHistory, currentQuestion, textInput, tracing, serverState>>
    /\ UNCHANGED <<chanVars, dispVars, formVars>>

\* the request task t awaits fails: fetch rejects or the response is not ok
RequestFails(t) ==
    /\ t \in BagToSet(tasks)
    /\ CASE t.pc = "answer" ->
              /\ tasks' = Take(tasks, t)
              /\ outcome' = "none"
              /\ UNCHANGED currentQuestion
         [] t.pc \in {"status", "history"} ->
              /\ LET r == AfterLoadDialogStatus(Take(tasks, t), t)
                 IN  /\ tasks' = r.tasks
                     /\ currentQuestion' = IF r.clear THEN Null ELSE currentQuestion
              /\ outcome' = Failed(t)
         [] t.pc \in {"question", "check"} ->
              /\ tasks' = Take(tasks, t)
              /\ outcome' = Failed(t)
              /\ UNCHANGED currentQuestion
    /\ UNCHANGED <<currentSessionId, dialogState, dialogProgress, dialogHistory,
                   textInput, lastPull, tracing, serverState>>
    /\ UNCHANGED <<chanVars, dispVars, formVars>>

\* ------------------------------------------------------ the requirement form
\* requirement texts, as sequences of characters: empty, blank, and with content
Texts == {<<>>, <<" ">>, <<" ", "a">>}

Whitespace == {" "}

RECURSIVE TrimStart(_)
TrimStart(text) ==
    IF text # <<>> /\ Head(text) \in Whitespace THEN TrimStart(Tail(text)) ELSE text

RECURSIVE TrimEnd(_)
TrimEnd(text) ==
    IF text # <<>> /\ text[Len(text)] \in Whitespace
      THEN TrimEnd(SubSeq(text, 1, Len(text) - 1))
      ELSE text

\* String.prototype.trim
Trim(text) == TrimEnd(TrimStart(text))

\* the session ids the server issues for successful submissions
IssuedIds == {"s1", "s2"}

\* app.parsedResult before any successful submission
NoResult == [success |-> FALSE, session_id |-> Null]

\* what POST /api/requirements answers
SubmitData == {[success |-> TRUE, session_id |-> id] : id \in IssuedIds} \cup {NoResult}

\* showNotification(message, type)
ShowNotification(type) == notification' = [show |-> TRUE, type |-> type]

\* the timer of showNotification fires: this.notification.show = false
HideNotification ==
    /\ notification.show
    /\ notification' = [notification EXCEPT !.show = FALSE]
    /\ outcome' = "none"
    /\ UNCHANGED <<requirementText, submitting, parsedResult>>
    /\ UNCHANGED <<currentSessionId, dialogState, dialogProgress, dialogHistory,
                   currentQuestion, textInput, tasks, lastPull, tracing, serverState>>
    /\ UNCHANGED <<chanVars, dispVars>>

\* the user edits the requirement text (x-model)
EditRequirement(text) ==
    /\ text # requirementText
    /\ requirementText' = text
    /\ outcome' = "none"
    /\ UNCHANGED <<submitting, parsedResult, notification>>
    /\ UNCHANGED <<currentSessionId, dialogState, dialogProgress, dialogHistory,
                   currentQuestion, textInput, tasks, lastPull, tracing, serverState>>
    /\ UNCHANGED <<chanVars, dispVars>>

\* app.submitRequirement up to its await
SubmitRequirement ==
    /\ Trim(requirementText) # <<>> => InFlight < MaxTasks
    /\ IF Trim(requirementText) = <<>>
         THEN /\ outcome' = "submitRejected"
              /\ UNCHANGED <<submitting, tasks>>
         ELSE /\ submitting' = TRUE
              /\ tasks' = Put(tasks, Task("submitRequirement", "submit", FALSE))
              /\ outcome' = "none"
    /\ UNCHANGED <<requirementText, parsedResult, notification>>
    /\ UNCHANGED <<currentSessionId, dialogState, dialogProgress, dialogHistory,
                   currentQuestion, textInput, lastPull, tracing, serverState>>
    /\ UNCHANGED <<chanVars, dispVars>>

\* the else branch and the catch of submitRequirement, followed by its finally, with
\* the finally left out
SubmitFailureKeepsBusy ==
    /\ ShowNotification("error")
    /\ outcome' = "submitFailed"
    /\ UNCHANGED <<submitting, currentSessionId, parsedResult>>
    /\ UNCHANGED chanVars

\* the else branch and the catch of submitRequirement, followed by its finally
SubmitFailure ==
    /\ ShowNotification("error")
    /\ submitting' = FALSE
    /\ outcome' = "submitFailed"
    /\ UNCHANGED <<currentSessionId, parsedResult>>
    /\ UNCHANGED chanVars

\* the request of submitRequirement is answered
SubmitResponse(t, result) ==
    /\ t \in BagToSet(tasks)
    /\ t.pc = "submit"
    /\ tasks' = Take(tasks, t)
    /\ IF result.success
         THEN /\ IsOpen(sockets, ws) \/ Cardinality(Live(sockets)) + reconnectTimers < MaxConns
              /\ parsedResult' = result
              /\ currentSessionId' = result.session_id
              /\ ShowNotification("success")
              /\ \E throws \in BOOLEAN : ConnectBody(result.session_id, throws)
              /\ userClosed' = FALSE
              /\ ceilingLost' = FALSE
              /\ lastSend' = NoSendCall
              /\ UNCHANGED <<connected, reconnectAttempts, reconnectTimers, heartbeats,
                             onStateChange, wsConnected, timerFor>>
              /\ submitting' = FALSE
              /\ outcome' = "submitted"
         ELSE SubmitFailure
    /\ UNCHANGED <<requirementText, dialogState, dialogProgress, dialogHistory,
                   currentQuestion, textInput, lastPull, tracing, serverState>>
    /\ UNCHANGED dispVars

\* the request of submitRequirement throws
SubmitFails(t) ==
    /\ t \in BagToSet(tasks)
    /\ t.pc = "submit"
    /\ tasks' = Take(tasks, t)
    /\ SubmitFailure
    /\ UNCHANGED <<requirementText, dialogState, dialogProgress, dialogHistory,
                   currentQuestion, textInput, lastPull, tracing, serverState>>
    /\ UNCHANGED dispVars

\* ----------------------------------------------------------- specification
Init ==
    /\ sockets = [s \in Slots |-> NoSocket]
    /\ ws = 0
    /\ sessionId = Null
    /\ connected = FALSE
    /\ reconnectAttempts = 0
    /\ reconnectTimers = 0
    /\ heartbeats = 0
    /\ onStateChange = FALSE
    /\ wsConnected = FALSE
    /\ userClosed = FALSE
    /\ ceilingLost = FALSE
    /\ timerFor = EmptyBag
    /\ lastSend = NoSendCall
    /\ listeners = <<>>
    /\ lastData = NoData
    /\ invoked = <<>>
    /\ lastOff = NoOff
    /\ lastRun = NoRun
    /\ currentSessionId = Null
    /\ dialogState = "idle"
    /\ dialogProgress = 0
    /\ dialogHistory = <<>>
    /\ currentQuestion = Null
    /\ textInput = ""
    /\ tasks = EmptyBag
    /\ lastPull = NoPull
    /\ outcome = "none"
    /\ tracing = "none"
    /\ serverState = "confirming"
    /\ requirementText = <<>>
    /\ submitting = FALSE
    /\ parsedResult = NoResult
    /\ notification = NoNotification

Next ==
    \/ InstallObserver /\ UNCHANGED <<dispVars, appVars, formVars>>
    \/ \E id \in Bindings, throws \in BOOLEAN :
            Connect(id, throws) /\ UNCHANGED <<dispVars, appVars, formVars>>
    \/ \E throws \in BOOLEAN : ReconnectTimer(throws) /\ UNCHANGED <<dispVars, appVars, formVars>>
    \/ \E s \in Slots : OnOpen(s) /\ UNCHANGED <<dispVars, appVars, formVars>>
    \/ \E s \in Slots : OnClose(s) /\ UNCHANGED <<dispVars, appVars, formVars>>
    \/ Disconnect /\ UNCHANGED <<dispVars, appVars, formVars>>

Spec == Init /\ [][Next]_vars

\* the channel with the calls that transmit: send, subscribe and the heartbeat
NextSend ==
    \/ Next
    \/ \E message \in Outbound : Send(message) /\ UNCHANGED <<dispVars, appVars, formVars>>
    \/ \E events \in EventLists : Subscribe(events) /\ UNCHANGED <<dispVars, appVars, formVars>>
    \/ Heartbeat /\ UNCHANGED <<dispVars, appVars, formVars>>

SpecSend == Init /\ [][NextSend]_vars

\* The dispatcher is exercised on the channel as app.init leaves it once its
\* connection is open: observer installed, connect() called, open event handled.
InitDispatchWith(trace) ==
    /\ sockets = [s \in Slots |-> IF s = 1 THEN [state |-> "open", sid |-> Null] ELSE NoSocket]
    /\ ws = 1
    /\ sessionId = Null
    /\ connected = TRUE
    /\ reconnectAttempts = 0
    /\ reconnectTimers = 0
    /\ heartbeats = 1
    /\ onStateChange = TRUE
    /\ wsConnected = TRUE
    /\ userClosed = FALSE
    /\ ceilingLost = FALSE
    /\ timerFor = EmptyBag
    /\ lastSend = NoSendCall
    /\ listeners = <<>>
    /\ lastData = NoData
    /\ invoked = <<>>
    /\ lastOff = NoOff
    /\ lastRun = NoRun
    /\ currentSessionId = Null
    /\ dialogState = "idle"
    /\ dialogProgress = 0
    /\ dialogHistory = <<>>
    /\ currentQuestion = Null
    /\ textInput = ""
    /\ tasks = EmptyBag
    /\ lastPull = NoPull
    /\ outcome = "none"
    /\ tracing = trace
    /\ serverState = "confirming"
    /\ requirementText = <<>>
    /\ submitting = FALSE
    /\ parsedResult = NoResult
    /\ notification = NoNotification

InitDispatch == InitDispatchWith("none")

NextDispatch ==
    \/ \E event \in EventKeys, callback \in Callbacks : On(event, callback)
    \/ \E event \in EventKeys, callback \in Callbacks : Off(event, callback)
    \/ \E s \in Slots, raw \in RawData : OnMessage(s, raw)

SpecDispatch == InitDispatch /\ [][NextDispatch]_vars

\* the registry alone: on and off, every off() call recorded
InitRegistry == InitDispatchWith("offs")

NextRegistry ==
    \/ \E event \in EventKeys, callback \in Callbacks : On(event, callback)
    \/ \E event \in EventKeys, callback \in Callbacks : Off(event, callback)

SpecRegistry == InitRegistry /\ [][NextRegistry]_vars

\* callback is registered for event
Subscribed(event, callback) ==
    event \in DOMAIN listeners /\ IndexOf(listeners[event], callback) > 0

\* every callback returns, or one of them throws
OneThrows ==
    {does \in [Callbacks -> {Returns, Throws}] :
        Cardinality({c \in Callbacks : does[c] = Throws}) <= 1}

\* the dispatcher with callbacks that return or throw, each callback registered at
\* most once for an event
NextThrowing ==
    \/ \E event \in EventKeys, callback \in Callbacks :
            ~Subscribed(event, callback) /\ On(event, callback)
    \/ \E event \in EventKeys, callback \in Callbacks : Off(event, callback)
    \/ \E s \in Slots, raw \in RawData, does \in OneThrows : OnMessageWith(s, raw, does)

SpecThrowing == InitDispatch /\ [][NextThrowing]_vars

\* every callback returns, one of them possibly after a call of off()
OneUnsubscribes ==
    {does \in [Callbacks -> {Returns} \cup Unsubscribes] :
        Cardinality({c \in Callbacks : does[c] # Returns}) <= 1}

\* the dispatcher with callbacks that return, or call off() and return, each callback
\* registered at most once for an event
NextUnsubscribing ==
    \/ \E event \in EventKeys, callback \in Callbacks :
            ~Subscribed(event, callback) /\ On(event, callback)
    \/ \E event \in EventKeys, callback \in Callbacks : Off(event, callback)
    \/ \E s \in Slots, raw \in RawData, does \in OneUnsubscribes : OnMessageWith(s, raw, does)

SpecUnsubscribing == InitDispatch /\ [][NextUnsubscribing]_vars

\* The coordinator is exercised on the channel as app.init leaves it once its
\* connection is open, before or after a successful submitRequirement (which sets
\* currentSessionId; its connect(sessionId) returns at once on the open connection).
InitAppWith(trace) ==
    /\ sockets = [s \in Slots |-> IF s = 1 THEN [state |-> "open", sid |-> Null] ELSE NoSocket]
    /\ ws = 1
    /\ sessionId = Null
    /\ connected = TRUE
    /\ reconnectAttempts = 0
    /\ reconnectTimers = 0
    /\ heartbeats = 1
    /\ onStateChange = TRUE
    /\ wsConnected = TRUE
    /\ userClosed = FALSE
    /\ ceilingLost = FALSE
    /\ timerFor = EmptyBag
    /\ lastSend = NoSendCall
    /\ listeners = [k \in {Wildcard} |-> <<"handleWsMessage">>]
    /\ lastData = NoData
    /\ invoked = <<>>
    /\ lastOff = NoOff
    /\ lastRun = NoRun
    /\ currentSessionId \in SessionIds \cup {Null}
    /\ dialogState = "idle"
    /\ dialogProgress = 0
    /\ dialogHistory = <<>>
    /\ currentQuestion = Null
    /\ textInput = ""
    /\ tasks = EmptyBag
    /\ lastPull = NoPull
    /\ outcome = "none"
    /\ tracing = trace
    /\ serverState = "confirming"
    /\ requirementText = IF currentSessionId = Null THEN <<>> ELSE <<" ", "a">>
    /\ submitting = FALSE
    /\ parsedResult = IF currentSessionId = Null
                        THEN NoResult
                        ELSE [success |-> TRUE, session_id |-> currentSessionId]
    /\ notification = NoNotification

InitApp == InitAppWith("none")

NextApp ==
    \/ \E message \in Notifications : HandleWsMessage(message)
    \/ PageWatcherDialog
    \/ StartDialog
    \/ \E answer \in Answers : AnswerQuestion(answer)
    \/ TypeText
    \/ \E t \in BagToSet(tasks), result \in AnswerData : AnswerResponse(t, result)
    \/ \E t \in BagToSet(tasks), data \in StatusData : StatusResponse(t, data)
    \/ \E t \in BagToSet(tasks), data \in HistoryData : HistoryResponse(t, data)
    \/ \E t \in BagToSet(tasks), data \in QuestionData : QuestionResponse(t, data)
    \/ \E t \in BagToSet(tasks), status \in StatusData : CheckResponse(t, status)
    \/ \E t \in BagToSet(tasks) : RequestFails(t)

SpecApp == InitApp /\ [][NextApp]_vars

\* the same, recording whether each refresh changed a dialog field
InitRefresh == InitAppWith("changes")

SpecRefresh == InitRefresh /\ [][NextApp]_vars

\* the pulls alone: no notification arrives and every request succeeds; what each
\* refresh returned is recorded
InitPulls == InitAppWith("values")

NextPulls ==
    \/ PageWatcherDialog
    \/ StartDialog
    \/ \E answer \in Answers : AnswerQuestion(answer)
    \/ \E t \in BagToSet(tasks), result \in AnswerData : AnswerResponse(t, result)
    \/ \E t \in BagToSet(tasks), data \in StatusData : StatusResponse(t, data)
    \/ \E t \in BagToSet(tasks), data \in HistoryData : HistoryResponse(t, data)
    \/ \E t \in BagToSet(tasks), data \in QuestionData : QuestionResponse(t, data)
    \/ \E t \in BagToSet(tasks), status \in StatusData : CheckResponse(t, status)

SpecPulls == InitPulls /\ [][NextPulls]_vars

\* one refresh after the other, the status responses reporting every pair of counters
NextProgress ==
    \/ StartDialog /\ tasks = EmptyBag
    \/ \E t \in BagToSet(tasks), data \in ProgressData : StatusResponse(t, data)
    \/ \E t \in BagToSet(tasks), data \in HistoryData : HistoryResponse(t, data)
    \/ \E t \in BagToSet(tasks), data \in QuestionData : QuestionResponse(t, data)
    \/ \E t \in BagToSet(tasks), status \in StatusData : CheckResponse(t, status)

SpecProgress == InitApp /\ [][NextProgress]_vars

\* one call after the other: the dialog is started, then questions are answered, each
\* call running to its end (requests may fail, which outcome records) before the next
\* is made
NextAnswer ==
    \/ StartDialog /\ tasks = EmptyBag
    \/ \E answer \in Answers : AnswerQuestion(answer) /\ tasks = EmptyBag
    \/ \E t \in BagToSet(tasks), result \in AnswerData : AnswerResponse(t, result)
    \/ \E t \in BagToSet(tasks), data \in StatusData : StatusResponse(t, data)
    \/ \E t \in BagToSet(tasks), data \in HistoryData : HistoryResponse(t, data)
    \/ \E t \in BagToSet(tasks), data \in QuestionData : QuestionResponse(t, data)
    \/ \E t \in BagToSet(tasks), status \in StatusData : CheckResponse(t, status)
    \/ \E t \in BagToSet(tasks) : RequestFails(t)

SpecAnswer == InitRefresh /\ [][NextAnswer]_vars

\* notifications and pulls against a server whose dialog only moves forward: every
\* status response carries the server's state when its request was issued, every
\* notification the server's state when it is delivered
InitServer == InitAppWith("server")

NextServer ==
    \/ \E state \in ReportedStates : ServerAdvance(state)
    \/ \E message \in Notifications : HandleWsMessage(message)
    \/ PageWatcherDialog
    \/ StartDialog
    \/ \E t \in BagToSet(tasks), data \in StatusData : StatusResponse(t, data)
    \/ \E t \in BagToSet(tasks), data \in HistoryData : HistoryResponse(t, data)
    \/ \E t \in BagToSet(tasks), data \in QuestionData : QuestionResponse(t, data)
    \/ \E t \in BagToSet(tasks), status \in StatusData : CheckResponse(t, status)

SpecServer == InitServer /\ [][NextServer]_vars

\* the requirement form: submissions that succeed, fail or are rejected; connections
\* of the channel open and close, and no reconnect timer fires meanwhile
NextSubmit ==
    \/ \E text \in Texts : EditRequirement(text)
    \/ SubmitRequirement
    \/ \E t \in BagToSet(tasks), result \in SubmitData : SubmitResponse(t, result)
    \/ \E t \in BagToSet(tasks) : SubmitFails(t)
    \/ HideNotification
    \/ \E s \in Slots : OnOpen(s) /\ UNCHANGED <<dispVars, appVars, formVars>>
    \/ \E s \in Slots : OnClose(s) /\ UNCHANGED <<dispVars, appVars, formVars>>

SpecSubmit == InitApp /\ [][NextSubmit]_vars

\* submissions, each successful one starting a new session, while the dialog page
\* pulls; every request is answered
NextSession ==
    \/ \E text \in Texts : EditRequirement(text)
    \/ SubmitRequirement
    \/ \E t \in BagToSet(tasks), result \in SubmitData : SubmitResponse(t, result)
    \/ PageWatcherDialog
    \/ StartDialog
    \/ \E t \in BagToSet(tasks), data \in StatusData : StatusResponse(t, data)
    \/ \E t \in BagToSet(tasks), data \in HistoryData : HistoryResponse(t, data)
    \/ \E t \in BagToSet(tasks), data \in QuestionData : QuestionResponse(t, data)
    \/ \E t \in BagToSet(tasks), status \in StatusData : CheckResponse(t, status)

SpecSession == InitApp /\ [][NextSession]_vars

\* ------------------------------------------------------------------ claims
\* a socket is constructed in this step
Created == \E s \in Slots : sockets[s].state # "connecting" /\ sockets'[s].state = "connecting"

\* C1: at most one WebSocket created by the client is connecting, open or closing
\* at any time.
C1_AtMostOneLiveSocket == Cardinality(Live(sockets)) <= 1

\* C2: after disconnect() no connection is created until connect() is called again:
\* neither by the close event that disconnect() produces nor by a reconnect timer.
C2_NoConnectionAfterDisconnect == [][(userClosed /\ userClosed') => ~Created]_vars

\* C3: a close event handled at the ceiling schedules no reconnect timer, connected
\* then stays false until connect() is called explicitly, and the attempt counter
\* never passes the ceiling.
C3_CeilingIsTerminal ==
    [][/\ (reconnectAttempts = maxReconnectAttempts /\ \E s \in Slots : OnClose(s))
            => reconnectTimers' = reconnectTimers
       /\ (ceilingLost /\ ceilingLost') => ~connected'
       /\ reconnectAttempts' <= maxReconnectAttempts]_vars

\* C4: at most one heartbeat interval timer is active, and none while the channel
\* is not open.
C4_HeartbeatSingleton ==
    /\ heartbeats <= 1
    /\ ~IsOpen(sockets, ws) => heartbeats = 0

\* C5: handling an inbound notification writes none of dialogState, dialogProgress,
\* dialogHistory and currentQuestion; they change only when a pull completes.
C5_PushNeverWritesDialog ==
    [][\A message \in Notifications : HandleWsMessage(message) => UNCHANGED dialogFields]_vars

\* C6: once no pull is in flight, dialogState, dialogProgress and dialogHistory equal
\* the values returned by one and the same refresh, the one that completed last (a
\* later question refresh that saw 'approved' counted as updating state and progress).
C6_QuiescentStateFromOnePull ==
    (tasks = EmptyBag /\ lastPull.done)
        => /\ dialogState = lastPull.state
           /\ dialogProgress = lastPull.progress
           /\ dialogHistory = lastPull.history

\* C7: a refresh one of whose requests fails leaves dialogState, dialogProgress,
\* dialogHistory and currentQuestion as they were when it started.
C7_FailedRefreshChangesNothing == outcome # "refreshFailedChanged"

\* C8: while dialogState is approved or cancelled, answerQuestion sends no request
\* and changes no dialog field, even if a currentQuestion is still held.
C8_TerminalRejectsAnswer ==
    [][\A answer \in Answers :
         (AnswerQuestion(answer) /\ Terminal(dialogState))
            => UNCHANGED <<tasks, dialogFields, textInput>>]_vars

\* C9: with no pending question or no session, answerQuestion sends no request,
\* appends nothing to dialogHistory and leaves dialogState, dialogProgress,
\* currentQuestion and textInput unchanged.
C9_NoQuestionRejectsAnswer ==
    [][\A answer \in Answers :
         (AnswerQuestion(answer) /\ (currentQuestion = Null \/ currentSessionId = Null))
            => /\ outcome' = "answerRejected"
               /\ UNCHANGED <<tasks, dialogHistory, dialogState, dialogProgress,
                              currentQuestion, textInput>>]_vars

\* C9 witness: a call was rejected with a session, text typed and a dialog loaded
C9_Witness ==
    /\ outcome = "answerRejected"
    /\ currentSessionId # Null /\ currentQuestion = Null
    /\ textInput = "typed" /\ dialogHistory # <<>> /\ dialogState = "confirming"

\* the callbacks a message must reach: those registered for its type in registration
\* order, then those registered for the wildcard in registration order
Registered(reg, key) == IF key \in DOMAIN reg THEN reg[key] ELSE <<>>
ExpectedCalls(reg, message) ==
    LET cbs == Registered(reg, message.type) \o Registered(reg, Wildcard)
    IN  [i \in 1..Len(cbs) |-> <<cbs[i], message>>]

\* C10: dispatch of a well-formed message of type t invokes the callbacks registered
\* for t in registration order, then those registered for '*' in registration order,
\* each with the full message, and no callback registered only for other types.
C10_DispatchOrder ==
    (lastData # NoData /\ JSONparse(lastData).ok)
        => invoked = ExpectedCalls(listeners, JSONparse(lastData).value)

\* C10 witness: A then B subscribed to a type, C to the wildcard, a message of that type
C10_Witness ==
    LET message == [type |-> "dialog_update", body |-> "b"] IN
    /\ lastData = <<"json", "dialog_update", "b">>
    /\ listeners = [k \in EventKeys |-> IF k = Wildcard THEN <<"C">> ELSE <<"A", "B">>]
    /\ invoked = <<<<"A", message>>, <<"B", message>>, <<"C", message>>>>

\* event.data is no JSON text
Malformed(raw) == raw[1] # "json"

\* C11: a message event whose payload fails to parse invokes no callback (typed or
\* wildcard), changes neither the channel state nor the listener registry and closes
\* no socket; this holds again when the same payload arrives a second time, and a
\* well-formed message that arrives next is dispatched as usual.
C11_MalformedIsNoOp ==
    [][\A s \in Slots, raw \in RawData :
         OnMessage(s, raw) =>
            /\ Malformed(raw) => /\ invoked' = <<>>
                                 /\ UNCHANGED <<chanVars, listeners>>
            /\ (lastData # NoData /\ Malformed(lastData) /\ ~Malformed(raw))
                  => invoked' = ExpectedCalls(listeners, [type |-> raw[2], body |-> raw[3]])]_vars

\* C11 witness: a malformed payload was handled while typed and wildcard callbacks were
\* registered and the socket is still open
C11_Witness ==
    /\ lastData = <<"garbage">> /\ invoked = <<>>
    /\ listeners = [k \in EventKeys |-> IF k = Wildcard THEN <<"C">> ELSE <<"A", "B">>]
    /\ IsOpen(sockets, ws) /\ connected

\* C12: connect(id) on an open connection returns without effect only when that
\* connection is bound to id; when it is bound to another binding, a new connection
\* targeting id is constructed and the client becomes bound to id.
C12_ConnectRebinds ==
    [][\A id \in Bindings :
         (Connect(id, FALSE) /\ IsOpen(sockets, ws))
            => IF sockets[ws].sid = id
                 THEN UNCHANGED <<sockets, ws, sessionId>>
                 ELSE /\ ws' # 0 /\ sockets'[ws'].sid = id /\ sockets'[ws'].state = "connecting"
                      /\ sessionId' = id]_vars

\* C13: the loss of a connection below the ceiling increases reconnectAttempts by
\* exactly one and schedules exactly one reconnect timer, and the connection that
\* timer attempts when it fires targets the binding of the lost connection, also
\* when connect(otherId) was called between the loss and the firing.
C13_ReconnectTargetsOriginal ==
    [][/\ \A s \in Slots :
            (OnClose(s) /\ reconnectAttempts < maxReconnectAttempts)
               => /\ reconnectAttempts' = reconnectAttempts + 1
                  /\ reconnectTimers' = reconnectTimers + 1
       /\ \A b \in Bindings :
            (ReconnectTimerOf(b, FALSE) /\ Created)
               => sockets'[ws'].sid = b]_vars

\* the step is a call of send or subscribe, or a heartbeat tick
Sends ==
    \/ \E message \in Outbound : Send(message)
    \/ \E events \in EventLists : Subscribe(events)
    \/ Heartbeat

\* C14: send, subscribe and the heartbeat ping transmit nothing and change no field
\* of the client while the current socket is absent or not open, and nothing is
\* queued: whatever a step puts on the wire is the argument of the send made by that
\* very step, handed to the current open socket.
C14_SendDropsWhenNotOpen ==
    [][/\ (Sends /\ ~IsOpen(sockets, ws))
            => /\ lastSend'.wire = <<>>
               /\ UNCHANGED clientFields
       /\ lastSend'.wire # <<>>
            => /\ Sends /\ IsOpen(sockets, ws)
               /\ lastSend'.wire = <<<<ws, lastSend'.arg>>>>]_vars

\* C14 witness: a subscribe was dropped on a socket that is still connecting
C14_Witness ==
    /\ lastSend = [arg |-> [type |-> "subscribe", body |-> "dialog_update"], wire |-> <<>>]
    /\ ws # 0 /\ sockets[ws].state = "connecting"

\* list without its element at position i
Without(list, i) == SubSeq(list, 1, i - 1) \o SubSeq(list, i + 1, Len(list))

\* i is the position of the first occurrence of callback in list
FirstAt(list, callback, i) ==
    /\ i \in 1..Len(list) /\ list[i] = callback
    /\ \A j \in 1..(i - 1) : list[j] # callback

\* C15: off(type, cb) removes exactly the first occurrence of cb from the list of
\* type and keeps the order of the others, the lists of the other keys staying as
\* they are; when cb is not in the list of type (or type has no list) the whole
\* registry is unchanged.
C15_OffRemovesFirst ==
    [][\A event \in EventKeys, callback \in Callbacks :
         Off(event, callback) =>
            LET list == Registered(listeners, event) IN
            IF \E i \in 1..Len(list) : list[i] = callback
              THEN /\ DOMAIN listeners' = DOMAIN listeners
                   /\ \A k \in DOMAIN listeners \ {event} : listeners'[k] = listeners[k]
                   /\ \E i \in 1..Len(list) :
                        /\ FirstAt(list, callback, i)
                        /\ listeners'[event] = Without(list, i)
              ELSE listeners' = listeners]_vars

\* C15 witness: off removed the first of two registrations of A that had B between
\* them, while A is also registered for the wildcard
C15_Witness ==
    /\ lastOff = [event |-> "dialog_update", callback |-> "A", index |-> 1]
    /\ listeners = [k \in EventKeys |-> IF k = Wildcard THEN <<"A">> ELSE <<"B", "A">>]

\* C16: right after the open event of a socket is handled, connected is true,
\* reconnectAttempts is 0, one more heartbeat timer is scheduled and the observer, if
\* set, has been called with true; right after a close event and right after
\* disconnect() the observer, if set, has been called with false.
C16_OpenEstablishes ==
    [][/\ \A s \in Slots :
            OnOpen(s) => /\ connected' /\ reconnectAttempts' = 0
                         /\ heartbeats' = heartbeats + 1
                         /\ onStateChange => wsConnected'
       /\ \A s \in Slots :
            OnClose(s) => /\ ~connected'
                          /\ onStateChange => ~wsConnected'
       /\ Disconnect => /\ ~connected'
                         /\ onStateChange => ~wsConnected']_vars

\* C16 witness: the channel is open again after a loss: observer told true, counter
\* back at 0, a second heartbeat timer scheduled
C16_Witness ==
    /\ IsOpen(sockets, ws) /\ connected /\ reconnectAttempts = 0
    /\ onStateChange /\ wsConnected /\ heartbeats = 2
    /\ Cardinality(Live(sockets)) = 1 /\ reconnectTimers = 0

\* C17: once dialogState is approved or cancelled it keeps that value: no
\* notification and no completing pull, stale or not, changes it, the server itself
\* never leaving a terminal state.
C17_TerminalIsFinal == [][Terminal(dialogState) => dialogState' = dialogState]_vars

\* round(x / y) for naturals x and y > 0: the nearest integer, halves up
Round(x, y) == (2 * x + y) \div (2 * y)

\* round(100 * A / T) when T > 0, else 0; a missing summary counts as 0 and 0
Reported(data) ==
    LET T == IF data.dialog_summary.present THEN data.dialog_summary.total_questions ELSE 0
        A == IF data.dialog_summary.present THEN data.dialog_summary.answered_questions ELSE 0
    IN  IF T > 0 THEN Round(100 * A, T) ELSE 0

\* C18: after every successful status refresh reporting T total and A answered
\* questions, dialogProgress is round(100 * A / T) when T > 0 and 0 otherwise, for
\* all counters up to MaxTotal; it is recomputed by each refresh and may decrease.
C18_ProgressIsRounded ==
    [][\A t \in BagToSet(tasks), data \in ProgressData :
         StatusResponse(t, data) => dialogProgress' = Reported(data)]_vars

\* a request of kind pc is issued in this step
Issued(pc) ==
    \E t \in BagToSet(tasks') : t.pc = pc /\ CopiesIn(t, tasks') > CopiesIn(t, tasks)

\* C19: every dialog_update notification handled while a session exists starts a
\* status pull, and starts a question pull if and only if currentQuestion is null
\* at that moment.
C19_NotificationPulls ==
    [][\A message \in Notifications :
         (HandleWsMessage(message) /\ message.type = "dialog_update" /\ currentSessionId # Null)
            => /\ Issued("status")
               /\ Issued("question") <=> currentQuestion = Null]_vars

\* C20: an answer the server accepts starts a status refresh, and when the call has
\* run to its end the answered question is no longer pending: currentQuestion is
\* null or the question the server returned next, also when the follow-up question
\* pull fails; and when the server then reports no question and state approved,
\* dialogState = approved, currentQuestion = null and dialogProgress = 100.
C20_AnswerClearsQuestion ==
    [][\A t \in BagToSet(tasks) :
         t.fn = "answerQuestion" =>
            /\ \A result \in AnswerData :
                 (AnswerResponse(t, result) /\ result.success) => Issued("status")
            /\ (t.pc # "answer" /\ tasks' = Take(tasks, t))
                 => \/ currentQuestion' = Null
                    \/ \E data \in QuestionData :
                         data.has_question /\ QuestionResponse(t, data)
            /\ \A status \in StatusData :
                 (CheckResponse(t, status) /\ status.state = "approved")
                    => /\ dialogState' = "approved" /\ dialogProgress' = 100
                       /\ currentQuestion' = Null]_vars

\* a text without any character that is not whitespace
Blank(text) == \A i \in 1..Len(text) : text[i] = " "

\* C21: a submission that fails (unsuccessful result, or the request throws) leaves
\* dialogState, currentSessionId, parsedResult and the binding of the channel as they
\* were, shows an error notification and leaves submitting false; submitting a blank
\* text sends no request.
C21_FailedSubmissionChangesNothing ==
    [][ /\ ( \/ \E t \in BagToSet(tasks), result \in SubmitData :
                    ~result.success /\ SubmitResponse(t, result)
             \/ \E t \in BagToSet(tasks) : SubmitFails(t) )
           => /\ UNCHANGED <<dialogState, currentSessionId, parsedResult, sessionId, ws, sockets>>
              /\ notification' = [show |-> TRUE, type |-> "error"]
              /\ ~submitting'
        /\ (SubmitRequirement /\ Blank(requirementText))
           => UNCHANGED <<tasks, submitting>> ]_vars

\* a submission has failed in a session established by an earlier submission, while
\* another submission is still in flight
C21_Witness ==
    /\ outcome = "submitFailed"
    /\ currentSessionId = "s2"
    /\ parsedResult.session_id = "s2"
    /\ sessionId = "s2"
    /\ InFlight > 0

\* a blank text was submitted
C21_WitnessBlank == outcome = "submitRejected" /\ requirementText = <<" ">>

\* C22: when the construction of the connection throws inside connect(id), the call
\* schedules no reconnect and leaves the channel disconnected: connected is false and
\* no connection is open.
C22_ThrowLeavesDisconnected ==
    [][\A id \in Bindings :
         (Connect(id, TRUE) /\ ~IsOpen(sockets, ws))
            => /\ reconnectTimers' = reconnectTimers
               /\ ~connected'
               /\ ~IsOpen(sockets', ws')]_vars

\* the calls up to and including the first one of a callback that throws
UpToThrow(calls, does) ==
    IF \E i \in 1..Len(calls) : does[calls[i][1]] = Throws
      THEN SubSeq(calls, 1, CHOOSE i \in 1..Len(calls) :
                              /\ does[calls[i][1]] = Throws
                              /\ \A j \in 1..(i - 1) : does[calls[j][1]] # Throws)
      ELSE calls

\* C23: when a callback throws during the dispatch of a message, no callback later in
\* the dispatch order (typed, then wildcard) is invoked for that message, the channel
\* and the registry are unaffected, and the next message is dispatched as usual.
C23_ThrowEndsDispatchOnly ==
    [][\A s \in Slots, raw \in RawData, does \in OneThrows :
         (OnMessageWith(s, raw, does) /\ ~Malformed(raw))
            => /\ invoked' = UpToThrow(ExpectedCalls(listeners,
                                                     [type |-> raw[2], body |-> raw[3]]), does)
               /\ UNCHANGED <<chanVars, listeners>>]_vars

\* C23 witness: the dispatch of a message ended with a callback that threw before
\* another registered callback had its turn, the connection is still open, and the
\* same message arriving next reached every callback
C23_Witness ==
    /\ lastRun.before.thrown /\ ~lastRun.thrown
    /\ lastRun.before.data = lastData
    /\ lastRun.before.calls < Len(invoked)
    /\ invoked = ExpectedCalls(listeners, JSONparse(lastData).value)
    /\ Len(invoked) = 3
    /\ IsOpen(sockets, ws) /\ connected

\* C24: between event handlers, connected is true exactly when the client's current
\* WebSocket exists and is open, and the app's wsConnected agrees with it once the
\* observer is installed.
C24_FlagAgreesWithConnection ==
    /\ connected <=> IsOpen(sockets, ws)
    /\ onStateChange => (wsConnected <=> IsOpen(sockets, ws))

\* C25: an answer request is sent only while no earlier answerQuestion call is still
\* running (its request or its follow-up refresh in flight), so that one displayed
\* question never consumes two answers.
C25_OneAnswerPerQuestion ==
    [][Issued("answer") => ~\E t \in BagToSet(tasks) : t.fn = "answerQuestion"]_vars

\* C26: the completion of a status or question refresh that was requested for a
\* session other than the current one writes neither state, progress nor question
\* into the local dialog.
C26_StaleRefreshIsDropped ==
    [][\A t \in BagToSet(tasks) :
         t.sid # currentSessionId =>
            /\ \A data \in StatusData :
                 StatusResponse(t, data) => UNCHANGED <<dialogState, dialogProgress>>
            /\ \A data \in QuestionData :
                 QuestionResponse(t, data) => UNCHANGED currentQuestion
            /\ \A status \in StatusData :
                 CheckResponse(t, status) => UNCHANGED <<dialogState, dialogProgress>>]_vars

\* the number of calls of callback in calls
Count(calls, callback) == Cardinality({i \in 1..Len(calls) : calls[i][1] = callback})

\* callback is registered in reg for event
RegisteredFor(reg, event, callback) ==
    \E i \in 1..Len(Registered(reg, event)) : Registered(reg, event)[i] = callback

\* C27: a callback registered for the type of a message (a type other than '*') or
\* for the wildcard when the dispatch starts, and still registered when it ends, is
\* invoked as often as it is without any off() call (once per registration), also
\* when some callback calls off() during the dispatch.
C27_UnsubscribeSkipsNobody ==
    [][\A s \in Slots, raw \in RawData, does \in OneUnsubscribes :
         (OnMessageWith(s, raw, does) /\ ~Malformed(raw) /\ raw[2] # Wildcard)
            => \A c \in Callbacks :
                 (\A k \in {raw[2], Wildcard} :
                     RegisteredFor(listeners, k, c) => RegisteredFor(listeners', k, c))
                    => Count(invoked', c)
                         = Count(ExpectedCalls(listeners, [type |-> raw[2], body |-> raw[3]]), c)]_vars

====
